---- MODULE Spec2Model ----
(***************************************************************************)
(* Model of nodejs-tarballs.py: the walk over a package-lock manifest      *)
(* (collect_deps_recursive), the registry MODULE_MAP it fills, and the     *)
(* consumers of the registry in main (writers and downloader).             *)
(*                                                                         *)
(* Strings are sequences of tokens.  "/" , "-", ":", "#" and "+" are       *)
(* tokens of their own, so that splitting, joining and taking a basename   *)
(* are computed on the text as the code computes them.                     *)
(***************************************************************************)
EXTENDS Integers, Sequences, FiniteSets, TLC

VARIABLES
    manifest,    \* js["dependencies"]: position (sequence of module names) -> entry
    MODULE_MAP,  \* filename -> descriptor
    stack,       \* the calls of collect_deps_recursive in progress
    pc,          \* where the program is, or the exception that ended it
    log,         \* what logging.warning and logging.error were called with
    visited,     \* the loop iterations of the walk that classified their entry
    run,         \* 1 in the first resolution, 2 in a second one
    first,       \* the registry the first resolution left
    args,        \* the command line
    files,       \* the working directory: name -> content
    dirs,        \* the directories of the working directory: name -> bare clone
    todo,        \* the rest of sorted(MODULE_MAP) in the download loop
    attempted,   \* the filenames the download loop has taken up
    written,     \* the output files opened so far: option -> lines
    data         \* the response body being written

walkvars == <<manifest, MODULE_MAP, stack, pc, log, visited, run, first>>

mainvars == <<args, files, dirs, todo, attempted, written, data>>

vars == <<manifest, MODULE_MAP, stack, pc, log, visited, run, first,
          args, files, dirs, todo, attempted, written, data>>

\* Largest number of entries of a manifest.
MaxNodes == 3

-----------------------------------------------------------------------------
(* Text helpers *)

\* Position of the first tok in s, 0 when there is none.
FirstIndex(s, tok) ==
    IF \E i \in 1..Len(s) : s[i] = tok
    THEN CHOOSE i \in 1..Len(s) : s[i] = tok /\ \A j \in 1..(i - 1) : s[j] # tok
    ELSE 0

\* Position of the last tok in s, 0 when there is none.
LastIndex(s, tok) ==
    IF \E i \in 1..Len(s) : s[i] = tok
    THEN CHOOSE i \in 1..Len(s) : s[i] = tok /\ \A j \in (i + 1)..Len(s) : s[j] # tok
    ELSE 0

\* s[i:] of Python, i counted from 1.
From(s, i) == SubSeq(s, i, Len(s))

\* os.path.basename: the text after the last "/".
Basename(s) == From(s, LastIndex(s, "/") + 1)

\* "/".join((a, b))
JoinSlash(a, b) == a \o <<"/">> \o b

\* Code-point order of the tokens that occur in sorted keys.
TokOrder == <<"-", ".tgz", "/", "1", "2", "3", "@s", "a", "b", "master",
              "node_modules", "x">>

TokRank(t) == CHOOSE i \in 1..Len(TokOrder) : TokOrder[i] = t

\* s < t as Python compares strings.
StrLess(s, t) ==
    \E i \in 1..(Len(t)) :
        /\ \A j \in 1..(i - 1) : j <= Len(s) /\ s[j] = t[j]
        /\ \/ i = Len(s) + 1
           \/ i <= Len(s) /\ TokRank(s[i]) < TokRank(t[i])

\* sorted(S) as a sequence.
RECURSIVE Sorted(_)
Sorted(S) ==
    IF S = {} THEN <<>>
    ELSE LET m == CHOOSE x \in S : \A y \in S \ {x} : StrLess(x, y)
         IN  <<m>> \o Sorted(S \ {m})

\* urllib.parse.urlparse on  scheme://netloc/path#fragment  (no params, no query).
Urlparse(s) ==
    LET c    == FirstIndex(s, ":")
        h    == FirstIndex(s, "#")
        body == IF h = 0 THEN From(s, c + 1) ELSE SubSeq(s, c + 1, h - 1)
        auth == Len(body) >= 2 /\ body[1] = "/" /\ body[2] = "/"
        rest == IF auth THEN From(body, 3) ELSE body
        p    == FirstIndex(rest, "/")
    IN  [scheme   |-> SubSeq(s, 1, c - 1),
         netloc   |-> IF ~auth THEN <<>>
                      ELSE IF p = 0 THEN rest ELSE SubSeq(rest, 1, p - 1),
         path     |-> IF ~auth THEN rest
                      ELSE IF p = 0 THEN <<>> ELSE From(rest, p),
         params   |-> <<>>,
         query    |-> <<>>,
         fragment |-> IF h = 0 THEN <<>> ELSE From(s, h + 1)]

\* urllib.parse.urlunparse((scheme, netloc, path, params, query, None))
Urlunparse(scheme, netloc, path, params, query) ==
    scheme \o <<":", "/", "/">> \o netloc \o path
      \o (IF params = <<>> THEN <<>> ELSE <<";">> \o params)
      \o (IF query = <<>> THEN <<>> ELSE <<"?">> \o query)

\* hexlify(b64decode(c)): "QUI=" and the non-canonical "QUJ=" both decode to b"AB".
B64Hex(c) ==
    CASE c = "QUI=" -> "4142"
      [] c = "QUJ=" -> "4142"
      [] c = "QUM=" -> "4143"

-----------------------------------------------------------------------------
(* The manifests *)

\* Module names: plain and scoped.
AllNames == {<<"a">>, <<"b">>, <<"@s", "/", "a">>, <<"@s", "/", "b">>}

Names == {<<"a">>, <<"b">>, <<"@s", "/", "a">>}

U1 == <<"https", ":", "/", "/", "r1", "/", "x", "-", "1", ".tgz">>
U2 == <<"https", ":", "/", "/", "r2", "/", "x", "-", "1", ".tgz">>

I1  == <<"sha512", "-", "QUI=">>
I1b == <<"sha512", "-", "QUJ=">>
I3  == <<"sha512", "-", "QUM=">>

\* git+https://g1/o/x.git#1 , git+http://g2/o/x#1 , git+ssh://g1/o/x.git#1
F1 == <<"git", "+", "https", ":", "/", "/", "g1", "/", "o", "/", "x", ".git", "#", "1">>
F2 == <<"git", "+", "http", ":", "/", "/", "g2", "/", "o", "/", "x", "#", "1">>
F4 == <<"git", "+", "ssh", ":", "/", "/", "g1", "/", "o", "/", "x", ".git", "#", "1">>

\* A ManifestNode without its "dependencies": the keys the walk reads.
WalkEntries ==
    { [version |-> "1", resolved |-> U1, integrity |-> I1],
      [version |-> "1", resolved |-> U2, integrity |-> I1],
      [version |-> "1", resolved |-> U1, integrity |-> I3],
      [version |-> "1", from |-> F1],
      [version |-> "1", from |-> F2],
      [version |-> "1", from |-> F4],
      [version |-> "1"],
      [version |-> "1", bundled |-> TRUE, resolved |-> U2, integrity |-> I1],
      [version |-> "1", bundled |-> FALSE, resolved |-> U1, integrity |-> I1b] }

BundledEntries ==
    { [version |-> "1", resolved |-> U1, integrity |-> I1],
      [version |-> "1", from |-> F1],
      [version |-> "1", bundled |-> TRUE, resolved |-> U2, integrity |-> I1],
      [version |-> "1", bundled |-> FALSE, resolved |-> U1, integrity |-> I1b] }

ScopedEntries ==
    { [version |-> "1", resolved |-> U1, integrity |-> I1],
      [version |-> "1", from |-> F1],
      [version |-> "1"] }

\* The shapes: sets of positions (sequences of module names) closed under parent.
RECURSIVE Shapes(_, _)
Shapes(n, NS) ==
    IF n = 0 THEN {{}}
    ELSE LET prev == Shapes(n - 1, NS)
         IN  prev \cup
             { t \cup {Append(p, nm)} :
                 <<t, p, nm>> \in { x \in prev \X (UNION prev \cup {<<>>}) \X NS :
                                      /\ Cardinality(x[1]) = n - 1
                                      /\ (x[2] = <<>> \/ x[2] \in x[1])
                                      /\ Append(x[2], x[3]) \notin x[1] } }

\* Every manifest of at most MaxNodes entries with names NS and entries E.
ManifestsOver(NS, E) == UNION { [t -> E] : t \in Shapes(MaxNodes, NS) }

\* deps of the node at position pos: the names of its "dependencies".
Deps(m, pos) == { nm \in AllNames : Append(pos, nm) \in DOMAIN m }

-----------------------------------------------------------------------------
(* collect_deps_recursive *)

EmptyMap == [f \in {} |-> {}]

\* MODULE_MAP[fn] = d
Put(map, fn, d) == [f \in DOMAIN map \cup {fn} |-> IF f = fn THEN d ELSE map[f]]

\* MODULE_MAP[fn].setdefault("path", set()).add(path)
SetdefaultAdd(map, fn, path) ==
    LET d == map[fn]
        e == [k \in DOMAIN d \cup {"path"} |->
                IF k = "path"
                THEN (IF "path" \in DOMAIN d THEN d["path"] ELSE {}) \cup {path}
                ELSE d[k]]
    IN  [map EXCEPT ![fn] = e]

\* The test of line 47 without the value of the key.
IsBundled_KeyOnly(entry) == "bundled" \in DOMAIN entry

\* "bundled" in entry and entry["bundled"]
IsBundled(entry) == "bundled" \in DOMAIN entry /\ entry["bundled"]

\* The path of a module below the parent path d.
ModulePath(d, module) ==
    LET path == JoinSlash(<<"node_modules">>, module)
    IN  IF d # <<>> THEN JoinSlash(d, path) ELSE path

\* The filename and descriptor of an entry whose "from" is a git+http(s) URL.
VcsArtifact(o) ==
    LET scheme == From(o.scheme, FirstIndex(o.scheme, "+") + 1)
        branch == IF o.fragment # <<>> THEN o.fragment ELSE <<"master">>
        b      == Basename(o.path)
        p      == IF Len(b) > 0 /\ b[Len(b)] = ".git" THEN SubSeq(b, 1, Len(b) - 1) ELSE b
    IN  [fn   |-> p \o <<"-">> \o branch \o <<".tgz">>,
         desc |-> [scm |-> "git", branch |-> branch, basename |-> p,
                   url |-> Urlunparse(scheme, o.netloc, o.path, o.params, o.query)]]

\* The filename with the prefix of line 90 put before it for every module.
ResolvedFilename_AlwaysPrefix(module, url) ==
    LET i == FirstIndex(module, "/")
    IN  SubSeq(module, 1, IF i = 0 THEN Len(module) ELSE i - 1) \o <<"-">> \o Basename(url)

\* The filename of a registry-resolved entry.
ResolvedFilename(module, url) ==
    LET fn == Basename(url)
    IN  IF FirstIndex(module, "/") # 0
        THEN SubSeq(module, 1, FirstIndex(module, "/") - 1) \o <<"-">> \o fn
        ELSE fn

\* algo, chksum = entry["integrity"].split("-", 2); chksum as lowercase hex.
\* The integrity strings of the manifests have one "-" (a second one makes the
\* unpacking raise ValueError).
Integrity(s) ==
    LET i == FirstIndex(s, "-")
    IN  [algo |-> s[1], chksum |-> B64Hex(s[i + 1])]

\* The comparison of lines 92-96, on a descriptor that has all three keys.
Mismatch(d, url, algo, chksum) ==
    d.url # url \/ d.algo # algo \/ d.chksum # chksum

\* One iteration of the loop body up to the recursion (lines 43-110):
\* the registry and the log after it, what the entry was classified as, and
\* the exception it raised, if any.
Classify(map, module, path, entry) ==
    IF IsBundled(entry)
    THEN [map |-> map, logged |-> <<>>, kind |-> "bundled", raised |-> "none"]
    ELSE IF "resolved" \notin DOMAIN entry
    THEN IF "from" \in DOMAIN entry
         THEN LET o == Urlparse(entry["from"])
              IN  IF o.scheme \in {<<"git", "+", "http">>, <<"git", "+", "https">>}
                  THEN LET a == VcsArtifact(o)
                       IN  [map    |-> SetdefaultAdd(Put(map, a.fn, a.desc), a.fn, path),
                            logged |-> <<>>, kind |-> "vcs", raised |-> "none"]
                  ELSE [map    |-> map,
                        logged |-> <<[level |-> "warning", module |-> module,
                                      what |-> "unsupported location"]>>,
                        kind |-> "unsupported", raised |-> "none"]
         ELSE [map    |-> map,
               logged |-> <<[level |-> "warning", module |-> module,
                             what |-> "no download"]>>,
               kind |-> "nodownload", raised |-> "none"]
    ELSE LET url == entry["resolved"]
             ig  == Integrity(entry["integrity"])
             fn  == ResolvedFilename(module, url)
         IN  IF fn \in DOMAIN map
             THEN IF "algo" \notin DOMAIN map[fn]
                  \* a git descriptor: the comparison or the arguments of
                  \* logging.error read MODULE_MAP[fn]["algo"]
                  THEN [map |-> map, logged |-> <<>>, kind |-> "resolved",
                        raised |-> "KeyError"]
                  ELSE IF Mismatch(map[fn], url, ig.algo, ig.chksum)
                  THEN [map    |-> SetdefaultAdd(map, fn, path),
                        logged |-> <<[level |-> "error", module |-> module,
                                      what |-> "mismatch"]>>,
                        kind |-> "resolved", raised |-> "none"]
                  ELSE [map |-> SetdefaultAdd(map, fn, path), logged |-> <<>>,
                        kind |-> "resolved", raised |-> "none"]
             ELSE [map |-> SetdefaultAdd(
                              Put(map, fn, [url |-> url, algo |-> ig.algo,
                                            chksum |-> ig.chksum]), fn, path),
                   logged |-> <<>>, kind |-> "resolved", raised |-> "none"]

\* collect_deps_recursive as a function: the loop over `names`, the rest of
\* sorted(deps) of the node `at` with path d, continued from acc.
RECURSIVE ResolveDeps(_, _, _, _, _)
ResolveDeps(m, d, at, names, acc) ==
    IF names = <<>> \/ acc.raised # "none" THEN acc
    ELSE LET module == Head(names)
             pos    == Append(at, module)
             path   == ModulePath(d, module)
             r      == Classify(acc.map, module, path, m[pos])
             here   == [map |-> r.map, log |-> acc.log \o r.logged, raised |-> r.raised]
             below  == IF r.raised = "none" /\ r.kind # "bundled" /\ Deps(m, pos) # {}
                       THEN ResolveDeps(m, path, pos, Sorted(Deps(m, pos)), here)
                       ELSE here
         IN  ResolveDeps(m, d, at, Tail(names), below)

\* collect_deps_recursive("", js["dependencies"]) on an empty MODULE_MAP.
Resolve(m) ==
    ResolveDeps(m, <<>>, <<>>, Sorted(Deps(m, <<>>)),
                [map |-> EmptyMap, log |-> <<>>, raised |-> "none"])

\* The frame of a call collect_deps_recursive(d, deps), deps the children of `at`.
Frame(m, d, at) == [d |-> d, at |-> at, rest |-> Sorted(Deps(m, at))]

Top == stack[Len(stack)]

\* One iteration of `for module in sorted(deps)`, the recursive call included
\* up to the entry of its loop.
ClassifyModule ==
    /\ pc = "walk"
    /\ stack # <<>>
    /\ Top.rest # <<>>
    /\ LET module == Head(Top.rest)
           pos    == Append(Top.at, module)
           path   == ModulePath(Top.d, module)
           entry  == manifest[pos]
           r      == Classify(MODULE_MAP, module, path, entry)
           popped == [stack EXCEPT ![Len(stack)].rest = Tail(@)]
       IN  IF r.raised # "none"
           THEN /\ pc' = r.raised
                /\ stack' = <<>>
                /\ UNCHANGED <<MODULE_MAP, log, visited>>
           ELSE /\ MODULE_MAP' = r.map
                /\ log' = log \o r.logged
                /\ visited' = IF r.kind = "bundled" THEN visited
                              ELSE Append(visited, [path |-> path, kind |-> r.kind])
                /\ stack' = IF r.kind # "bundled" /\ Deps(manifest, pos) # {}
                            THEN Append(popped, Frame(manifest, path, pos))
                            ELSE popped
                /\ pc' = pc
    /\ UNCHANGED <<manifest, run, first>>
    /\ UNCHANGED mainvars

\* The loop of a call is exhausted: the call returns.
ReturnFromDeps ==
    /\ pc = "walk"
    /\ stack # <<>>
    /\ Top.rest = <<>>
    /\ stack' = SubSeq(stack, 1, Len(stack) - 1)
    /\ pc' = IF Len(stack) = 1 THEN "walked" ELSE pc
    /\ UNCHANGED <<manifest, MODULE_MAP, log, visited, run, first>>
    /\ UNCHANGED mainvars

\* A second call collect_deps_recursive("", js["dependencies"]) in the same
\* process: MODULE_MAP is the module-level dict the first call filled.
RunAgain ==
    /\ pc = "walked"
    /\ run = 1
    /\ run' = 2
    /\ first' = MODULE_MAP
    /\ stack' = <<Frame(manifest, <<>>, <<>>)>>
    /\ visited' = <<>>
    /\ pc' = "walk"
    /\ UNCHANGED <<manifest, MODULE_MAP, log>>
    /\ UNCHANGED mainvars

\* A second run of the program: MODULE_MAP starts as dict() again.
RunAgainFresh ==
    /\ pc = "walked"
    /\ run = 1
    /\ run' = 2
    /\ first' = MODULE_MAP
    /\ MODULE_MAP' = EmptyMap
    /\ stack' = <<Frame(manifest, <<>>, <<>>)>>
    /\ visited' = <<>>
    /\ log' = <<>>
    /\ pc' = "walk"
    /\ UNCHANGED <<manifest>>
    /\ UNCHANGED mainvars

\* No output option, no --download.
NoArgs ==
    [output |-> FALSE, checksums |-> FALSE, locations |-> FALSE,
     download |-> FALSE, download_skip_existing |-> FALSE]

InitWalk(M) ==
    /\ args = NoArgs
    /\ files = EmptyMap
    /\ dirs = EmptyMap
    /\ todo = <<>>
    /\ attempted = <<>>
    /\ written = EmptyMap
    /\ data = "none"
    /\ manifest \in M
    /\ MODULE_MAP = EmptyMap
    /\ stack = <<Frame(manifest, <<>>, <<>>)>>
    /\ pc = "walk"
    /\ log = <<>>
    /\ visited = <<>>
    /\ run = 1
    /\ first = EmptyMap

Init == InitWalk(ManifestsOver(Names, WalkEntries))

Next == ClassifyModule \/ ReturnFromDeps

Spec == Init /\ [][Next]_vars

\* The walk over manifests that have bundled entries.
InitBundled == InitWalk(ManifestsOver(Names, BundledEntries))

NextBundled == ClassifyModule \/ ReturnFromDeps

SpecBundled == InitBundled /\ [][NextBundled]_vars

\* The walk over manifests with two names in one scope.
InitScoped == InitWalk(ManifestsOver(AllNames, ScopedEntries))

NextScoped == ClassifyModule \/ ReturnFromDeps

SpecScoped == InitScoped /\ [][NextScoped]_vars

\* The resolution run twice on one manifest.
NextTwice == ClassifyModule \/ ReturnFromDeps \/ RunAgain \/ RunAgainFresh

SpecTwice == Init /\ [][NextTwice]_vars

-----------------------------------------------------------------------------
(* main: the writers and the downloader *)

\* git+https://g1/o/x.git#2 and git+http://g2/o/x#3: one basename, two repos.
F5 == <<"git", "+", "https", ":", "/", "/", "g1", "/", "o", "/", "x", ".git", "#", "2">>
F6 == <<"git", "+", "http", ":", "/", "/", "g2", "/", "o", "/", "x", "#", "3">>

MainEntries ==
    { [version |-> "1", resolved |-> U1, integrity |-> I1],
      [version |-> "1", from |-> F5],
      [version |-> "1", from |-> F6] }

\* Every manifest of at most MaxNodes top-level entries.
FlatManifests(NS, E) ==
    UNION { [{<<nm>> : nm \in S} -> E] :
              S \in {T \in SUBSET NS : Cardinality(T) <= MaxNodes} }

\* The command lines.
ArgsSet ==
    [output : BOOLEAN, checksums : BOOLEAN, locations : BOOLEAN,
     download : BOOLEAN, download_skip_existing : BOOLEAN]

\* What is in the working directory when the program starts: nothing, an
\* earlier download of x-1.tgz, a left-over x-1.tgz.new.
XTgz == <<"x", "-", "1", ".tgz">>

PriorFile == [bytes |-> "prior"]

StaleNew == [bytes |-> "stale"]

FilesSet ==
    { EmptyMap,
      [f \in {XTgz} |-> PriorFile],
      [f \in {XTgz \o <<".new">>} |-> StaleNew],
      [f \in {XTgz, XTgz \o <<".new">>} |->
          IF f = XTgz THEN PriorFile ELSE StaleNew] }

\* A directory x is absent, or is a bare clone made from some other repository.
OtherRepo == <<"https", ":", "/", "/", "g9", "/", "o", "/", "x">>

DirsSet == { EmptyMap, [dn \in {<<"x">>} |-> [origin |-> OtherRepo]] }

\* The bodies a server answers with.
Bodies == {"AB", "AC"}

\* hashlib.new(algo).update(data).hexdigest()
Hexdigest(algo, body) ==
    CASE body = "AB" -> "4142"
      [] body = "AC" -> "4143"
      [] body = "A"  -> "41"
      [] OTHER       -> "0000"

\* What is on disk of a body whose write stopped part way.
Truncated(body) == "A"

\* str.upper()
Upper(a) == CASE a = "sha512" -> "SHA512" [] a = "sha1" -> "SHA1"

\* " ".join(seq)
RECURSIVE JoinSpace(_)
JoinSpace(seq) ==
    IF seq = <<>> THEN <<>>
    ELSE IF Len(seq) = 1 THEN seq[1]
    ELSE seq[1] \o <<" ">> \o JoinSpace(Tail(seq))

\* The lines of lines 127-130: "Source{}:     {}#/{}\n"
RECURSIVE SourceLines(_, _, _)
SourceLines(map, fns, i) ==
    IF fns = <<>> THEN <<>>
    ELSE << <<"Source", ToString(i), ":     ">> \o map[Head(fns)]["url"]
              \o <<"#/">> \o Head(fns) \o <<"\n">> >>
         \o SourceLines(map, Tail(fns), i + 1)

\* The loop of lines 134-139: the lines written and whether a KeyError ended it.
RECURSIVE ChecksumLines(_, _)
ChecksumLines(map, fns) ==
    IF fns = <<>> THEN [lines |-> <<>>, raised |-> "none"]
    ELSE IF "algo" \notin DOMAIN map[Head(fns)]
    THEN [lines |-> <<>>, raised |-> "KeyError"]
    ELSE LET r == ChecksumLines(map, Tail(fns))
         IN  [lines |-> << <<Upper(map[Head(fns)]["algo"]), " (">> \o Head(fns)
                              \o <<") = ", map[Head(fns)]["chksum"], "\n">> >>
                          \o r.lines,
              raised |-> r.raised]

\* The lines of lines 143-144: "{} {}\n"
RECURSIVE LocationLines(_, _)
LocationLines(map, fns) ==
    IF fns = <<>> THEN <<>>
    ELSE << Head(fns) \o <<" ">> \o JoinSpace(Sorted(map[Head(fns)]["path"]))
              \o <<"\n">> >>
         \o LocationLines(map, Tail(fns))

\* open(name, "w") and the lines written before the file is closed.
Opened(name, lines) ==
    [o \in DOMAIN written \cup {name} |-> IF o = name THEN lines ELSE written[o]]

\* What main leaves alone once the walk has returned.
resolved == <<manifest, MODULE_MAP, stack, visited, run, first>>

\* if args.output: lines 125-130
WriteSourceLines ==
    /\ pc = "walked"
    /\ written' = IF args.output
                  THEN Opened("output",
                              SourceLines(MODULE_MAP, Sorted(DOMAIN MODULE_MAP), 100))
                  ELSE written
    /\ pc' = "checksums"
    /\ UNCHANGED resolved
    /\ UNCHANGED <<log, args, files, dirs, todo, attempted, data>>

\* if args.checksums: lines 132-139
WriteChecksums ==
    /\ pc = "checksums"
    /\ LET r == ChecksumLines(MODULE_MAP, Sorted(DOMAIN MODULE_MAP))
       IN  IF args.checksums
           THEN /\ written' = Opened("checksums", r.lines)
                /\ pc' = IF r.raised = "none" THEN "locations" ELSE r.raised
           ELSE /\ written' = written
                /\ pc' = "locations"
    /\ UNCHANGED resolved
    /\ UNCHANGED <<log, args, files, dirs, todo, attempted, data>>

\* if args.locations: lines 141-144
WriteLocations ==
    /\ pc = "locations"
    /\ written' = IF args.locations
                  THEN Opened("locations",
                              LocationLines(MODULE_MAP, Sorted(DOMAIN MODULE_MAP)))
                  ELSE written
    /\ pc' = "download"
    /\ UNCHANGED resolved
    /\ UNCHANGED <<log, args, files, dirs, todo, attempted, data>>

\* if args.download: for fn in sorted(MODULE_MAP)   (lines 146-147)
StartDownload ==
    /\ pc = "download"
    /\ IF args.download
       THEN /\ todo' = Sorted(DOMAIN MODULE_MAP)
            /\ pc' = "loop"
       ELSE /\ todo' = todo
            /\ pc' = "returned"
    /\ UNCHANGED resolved
    /\ UNCHANGED <<log, args, files, dirs, attempted, written, data>>

\* An artifact with "scm": lines 149-176.  The subprocesses succeed or fail;
\* git archive writes ../fn from the clone in the directory d, whatever that
\* clone was made from.
GitArtifact ==
    /\ pc = "loop"
    /\ todo # <<>>
    /\ "scm" \in DOMAIN MODULE_MAP[Head(todo)]
    /\ LET fn  == Head(todo)
           url == MODULE_MAP[fn]["url"]
           d   == MODULE_MAP[fn]["basename"]
       IN  \E fetched \in BOOLEAN, archived \in BOOLEAN :
             /\ IF ~fetched
                THEN /\ log' = Append(log, [level |-> "error", fn |-> fn,
                                            what |-> "failed to clone"])
                     /\ UNCHANGED <<dirs, files>>
                ELSE /\ dirs' = IF d \in DOMAIN dirs THEN dirs
                                ELSE [dn \in DOMAIN dirs \cup {d} |->
                                        IF dn = d THEN [origin |-> url] ELSE dirs[dn]]
                     /\ IF ~archived
                        THEN /\ log' = Append(log, [level |-> "error", fn |-> fn,
                                                    what |-> "failed to create tar"])
                             /\ UNCHANGED files
                        ELSE /\ files' = [f \in DOMAIN files \cup {fn} |->
                                            IF f = fn
                                            THEN [repo   |-> dirs'[d].origin,
                                                  branch |-> MODULE_MAP[fn]["branch"]]
                                            ELSE files[f]]
                             /\ UNCHANGED log
    /\ attempted' = Append(attempted, Head(todo))
    /\ todo' = Tail(todo)
    /\ UNCHANGED resolved
    /\ UNCHANGED <<pc, args, written, data>>

\* An artifact without "scm", up to the comparison of the digest: lines 178-204.
\* urlopen is called outside the try statement: the HTTPError of an error
\* status, or of 304 Not Modified to a request with If-Modified-Since, leaves main.
FetchArtifact ==
    /\ pc = "loop"
    /\ todo # <<>>
    /\ "scm" \notin DOMAIN MODULE_MAP[Head(todo)]
    /\ LET fn     == Head(todo)
           exists == fn \in DOMAIN files
       IN  /\ attempted' = Append(attempted, fn)
           /\ IF exists /\ args.download_skip_existing
              THEN /\ todo' = Tail(todo)
                   /\ UNCHANGED <<pc, log, data>>
              ELSE \E status \in {200, 404} \cup (IF exists THEN {304} ELSE {}),
                      body \in Bodies :
                     IF status # 200
                     THEN /\ pc' = "HTTPError"
                          /\ UNCHANGED <<todo, log, data>>
                     ELSE IF Hexdigest(MODULE_MAP[fn]["algo"], body)
                               # MODULE_MAP[fn]["chksum"]
                     THEN /\ log' = Append(log, [level |-> "error", fn |-> fn,
                                                 what |-> "checksum failure"])
                          /\ todo' = Tail(todo)
                          /\ UNCHANGED <<pc, data>>
                     ELSE /\ pc' = "write"
                          /\ data' = body
                          /\ UNCHANGED <<todo, log>>
    /\ UNCHANGED resolved
    /\ UNCHANGED <<args, files, dirs, written>>

\* with open(fn + ".new", "wb") as fh: fh.write(data), and its except OSError
\* (lines 206-210).
WriteNew ==
    /\ pc = "write"
    /\ LET new == Head(todo) \o <<".new">>
       IN  \E outcome \in {"written", "open failed", "write failed"} :
             /\ files' = IF outcome = "open failed" THEN files
                         ELSE [f \in DOMAIN files \cup {new} |->
                                 IF f = new
                                 THEN [bytes |-> IF outcome = "written" THEN data
                                                 ELSE Truncated(data)]
                                 ELSE files[f]]
             /\ log' = IF outcome = "written" THEN log
                       ELSE Append(log, [level |-> "error", fn |-> Head(todo),
                                         what |-> "OSError"])
    /\ pc' = "rename"
    /\ UNCHANGED resolved
    /\ UNCHANGED <<args, dirs, todo, attempted, written, data>>

\* finally: os.rename(fn + ".new", fn)   (lines 211-212)
RenameNew ==
    /\ pc = "rename"
    /\ LET fn  == Head(todo)
           new == fn \o <<".new">>
       IN  IF new \in DOMAIN files
           THEN /\ files' = [f \in (DOMAIN files \cup {fn}) \ {new} |->
                               IF f = fn THEN files[new] ELSE files[f]]
                /\ todo' = Tail(todo)
                /\ pc' = "loop"
           ELSE /\ pc' = "FileNotFoundError"
                /\ UNCHANGED <<files, todo>>
    /\ data' = "none"
    /\ UNCHANGED resolved
    /\ UNCHANGED <<log, args, dirs, attempted, written>>

\* return 0   (line 216)
Return ==
    /\ pc = "loop"
    /\ todo = <<>>
    /\ pc' = "returned"
    /\ UNCHANGED resolved
    /\ UNCHANGED <<log, args, files, dirs, todo, attempted, written, data>>

InitMain ==
    /\ manifest \in FlatManifests(Names, MainEntries)
    /\ MODULE_MAP = EmptyMap
    /\ stack = <<Frame(manifest, <<>>, <<>>)>>
    /\ pc = "walk"
    /\ log = <<>>
    /\ visited = <<>>
    /\ run = 1
    /\ first = EmptyMap
    /\ args \in ArgsSet
    /\ files \in FilesSet
    /\ dirs \in DirsSet
    /\ todo = <<>>
    /\ attempted = <<>>
    /\ written = EmptyMap
    /\ data = "none"

NextMain ==
    \/ ClassifyModule \/ ReturnFromDeps
    \/ WriteSourceLines \/ WriteChecksums \/ WriteLocations
    \/ StartDownload \/ GitArtifact \/ FetchArtifact \/ WriteNew \/ RenameNew
    \/ Return

SpecMain == InitMain /\ [][NextMain]_vars

-----------------------------------------------------------------------------
(* What the properties of the walk are stated with *)

\* bundled == true
BundledTrue(e) == "bundled" \in DOMAIN e /\ e["bundled"] = TRUE

\* <parent path>/node_modules/<name>, no leading separator at the root.
RECURSIVE PathOf(_)
PathOf(pos) ==
    IF Len(pos) = 1 THEN <<"node_modules", "/">> \o pos[1]
    ELSE PathOf(SubSeq(pos, 1, Len(pos) - 1)) \o <<"/", "node_modules", "/">> \o pos[Len(pos)]

\* The node at pos is not bundled and has no bundled ancestor.
Reached(m, pos) == \A i \in 1..Len(pos) : ~BundledTrue(m[SubSeq(pos, 1, i)])

\* The manifest without its bundled entries and what is nested below them.
Strip(m) == [pos \in {q \in DOMAIN m : Reached(m, q)} |-> m[pos]]

\* The reached nodes depth-first, siblings in sorted module-name order.
RECURSIVE DepthFirst(_, _, _)
DepthFirst(m, at, names) ==
    IF names = <<>> THEN <<>>
    ELSE LET pos == Append(at, Head(names))
         IN  (IF BundledTrue(m[pos]) THEN <<>>
              ELSE <<pos>> \o DepthFirst(m, pos, Sorted(Deps(m, pos))))
             \o DepthFirst(m, at, Tail(names))

WalkOrder(m) == DepthFirst(m, <<>>, Sorted(Deps(m, <<>>)))

IsResolved(e) == "resolved" \in DOMAIN e

ModuleOf(pos) == pos[Len(pos)]

\* What a registry-resolved entry asks the registry to hold.
Wanted(e) ==
    [url |-> e["resolved"], algo |-> Integrity(e["integrity"]).algo,
     chksum |-> Integrity(e["integrity"]).chksum]

\* The places in walk order of the registry-resolved entries that derive fn.
Deriving(m, fn) ==
    SelectSeq(WalkOrder(m),
              LAMBDA pos : IsResolved(m[pos])
                           /\ ResolvedFilename(ModuleOf(pos), m[pos]["resolved"]) = fn)

ResolvedFilenames(m) ==
    { ResolvedFilename(ModuleOf(pos), m[pos]["resolved"]) :
        pos \in { q \in DOMAIN m : Reached(m, q) /\ IsResolved(m[q]) } }

\* The later entries deriving fn that disagree with the first one.
Disagreeing(m, fn) ==
    LET ps == Deriving(m, fn)
    IN  { i \in 2..Len(ps) : Wanted(m[ps[i]]) # Wanted(m[ps[1]]) }

\* The number of disagreeing later entries over the filenames FS.
RECURSIVE Disagreements(_, _)
Disagreements(m, FS) ==
    IF FS = {} THEN 0
    ELSE LET fn == CHOOSE y \in FS : TRUE
         IN  Cardinality(Disagreeing(m, fn)) + Disagreements(m, FS \ {fn})

Errors == Cardinality({ i \in 1..Len(log) : log[i].level = "error" })

WalkEnded == pc # "walk"

-----------------------------------------------------------------------------
(* Properties of the walk *)

\* C1: when registry-resolved entries that derive one filename disagree, the
\* walk runs to completion, one error is logged for each disagreeing later
\* entry, and the registry holds the url, algo and chksum of the first of them
\* in walk order.
C1_FirstSeenRetained ==
    (WalkEnded /\ \E fn \in ResolvedFilenames(manifest) : Disagreeing(manifest, fn) # {})
    => /\ pc = "walked"
       /\ Errors = Disagreements(manifest, ResolvedFilenames(manifest))
       /\ \A fn \in ResolvedFilenames(manifest) :
            Disagreeing(manifest, fn) # {}
            => /\ fn \in DOMAIN MODULE_MAP
               /\ {"url", "algo", "chksum"} \subseteq DOMAIN MODULE_MAP[fn]
               /\ [k \in {"url", "algo", "chksum"} |-> MODULE_MAP[fn][k]]
                    = Wanted(manifest[Deriving(manifest, fn)[1]])

\* C2: from one state of the walk to the next, every filename of the registry
\* stays in it and its set of referencing paths does not lose a path.
C2_PathsOnlyGrow ==
    [][\A f \in DOMAIN MODULE_MAP :
          /\ f \in DOMAIN MODULE_MAP'
          /\ MODULE_MAP[f]["path"] \subseteq MODULE_MAP'[f]["path"]]_vars

\* C3: no referencing path is the path of a bundled entry or of a node nested
\* below one; when the walk has ended the registry, and the way the walk ended,
\* are those of the manifest without the bundled entries and what is nested
\* below them; an entry with bundled == false is classified like one without
\* the key.
C3_BundledOpaque ==
    /\ \A f \in DOMAIN MODULE_MAP : \A pos \in DOMAIN manifest :
          ~Reached(manifest, pos) => PathOf(pos) \notin MODULE_MAP[f]["path"]
    /\ WalkEnded =>
          /\ MODULE_MAP = Resolve(Strip(manifest)).map
          /\ pc = (IF Resolve(Strip(manifest)).raised = "none" THEN "walked"
                   ELSE Resolve(Strip(manifest)).raised)
    /\ pc = "walked" =>
          \A pos \in DOMAIN manifest :
             (Reached(manifest, pos) /\ IsResolved(manifest[pos]))
             => ResolvedFilename(ModuleOf(pos), manifest[pos]["resolved"])
                  \in DOMAIN MODULE_MAP

\* A bundled entry with dependencies of its own, beside registered entries,
\* one of them with bundled == false.
C3_Witness ==
    /\ pc = "walked"
    /\ MODULE_MAP # EmptyMap
    /\ \E pos \in DOMAIN manifest :
          BundledTrue(manifest[pos]) /\ Deps(manifest, pos) # {}
    /\ \E pos \in DOMAIN manifest :
          /\ Reached(manifest, pos)
          /\ "bundled" \in DOMAIN manifest[pos]

\* Two reached registry-resolved entries with different module names and the
\* same resolved URL and integrity.
SameTarball(m, p, q) ==
    /\ Reached(m, p) /\ Reached(m, q)
    /\ IsResolved(m[p]) /\ IsResolved(m[q])
    /\ ModuleOf(p) # ModuleOf(q)
    /\ m[p]["resolved"] = m[q]["resolved"]
    /\ m[p]["integrity"] = m[q]["integrity"]

\* The text before the first "/" of a module name, nothing for a plain name.
ScopeOf(module) ==
    IF FirstIndex(module, "/") = 0 THEN <<>>
    ELSE SubSeq(module, 1, FirstIndex(module, "/") - 1)

C8_SecondRunSame ==
    (run = 2 /\ WalkEnded) => (pc = "walked" /\ MODULE_MAP = first)

\* What an entry that is not bundled is classified as.
KindOf(e) ==
    IF IsResolved(e) THEN "resolved"
    ELSE IF "from" \notin DOMAIN e THEN "nodownload"
    ELSE IF SubSeq(e["from"], 1, 4) \in {<<"git", "+", "http", ":">>,
                                         <<"git", "+", "https", ":">>}
    THEN "vcs" ELSE "unsupported"

\* C9: the walk classifies every node that is not bundled and has no bundled
\* ancestor exactly once, depth-first with siblings in sorted order, under the
\* path <parent path>/node_modules/<name>, whatever its ancestors were
\* classified as.
C9_EveryNodeClassifiedOnce ==
    WalkEnded =>
      visited = [i \in 1..Len(WalkOrder(manifest)) |->
                   [path |-> PathOf(WalkOrder(manifest)[i]),
                    kind |-> KindOf(manifest[WalkOrder(manifest)[i]])]]

\* A walk that returns has classified the nodes as C9 says: only the KeyError
\* of the conflict check on a git descriptor ends a walk early.
WalkedInOrder == pc = "walked" => C9_EveryNodeClassifiedOnce

-----------------------------------------------------------------------------
(* Properties of the writers and the downloader *)

\* The filenames of the registry-resolved artifacts, sorted.
ResolvedArtifacts ==
    SelectSeq(Sorted(DOMAIN MODULE_MAP), LAMBDA fn : "algo" \in DOMAIN MODULE_MAP[fn])

\* <ALGO-UPPER> (<filename>) = <hex>
SumLine(fn) ==
    <<Upper(MODULE_MAP[fn]["algo"]), " (">> \o fn
      \o <<") = ", MODULE_MAP[fn]["chksum"], "\n">>

\* C5: with a checksum output path the checksum writer completes, having
\* written one line for each registry-resolved artifact in sorted filename
\* order and none for a VCS artifact, and main goes on to the location writer.
C5_ChecksumWriterCompletes ==
    [][(pc = "checksums" /\ args.checksums)
       => /\ pc' = "locations"
          /\ "checksums" \in DOMAIN written'
          /\ written'["checksums"] =
               [i \in 1..Len(ResolvedArtifacts) |-> SumLine(ResolvedArtifacts[i])]]_vars

\* C6: with --download, the downloader ends with main returning 0, having
\* taken up every artifact of the registry once in sorted filename order,
\* whatever failed for single artifacts.
C6_DownloaderContinues ==
    (args.download /\ pc \in {"returned", "HTTPError", "FileNotFoundError"})
    => /\ pc = "returned"
       /\ attempted = Sorted(DOMAIN MODULE_MAP)

\* C7: the file of a registry-resolved artifact is absent, or has its prior
\* content, or holds fetched bytes whose digest under the stored algorithm is
\* the stored checksum.
C7_NoPartialFile ==
    \A fn \in DOMAIN MODULE_MAP :
       ("algo" \in DOMAIN MODULE_MAP[fn] /\ fn \in DOMAIN files)
       => \/ files[fn] = PriorFile
          \/ /\ "bytes" \in DOMAIN files[fn]
             /\ files[fn]["bytes"] \in Bodies
             /\ Hexdigest(MODULE_MAP[fn]["algo"], files[fn]["bytes"])
                  = MODULE_MAP[fn]["chksum"]

\* C10: the archive the downloader wrote under the filename of a VCS artifact
\* was taken from a clone of the URL stored for that artifact, at its branch.
C10_ArchiveFromOwnRepo ==
    \A fn \in DOMAIN MODULE_MAP :
       ("scm" \in DOMAIN MODULE_MAP[fn] /\ fn \in DOMAIN files)
       => /\ files[fn]["repo"] = MODULE_MAP[fn]["url"]
          /\ files[fn]["branch"] = MODULE_MAP[fn]["branch"]

====
